---- MODULE Spec2Model ----
(***************************************************************************)
(* A model of qmt's geometry data classes (src/qmt/data/geometry.py):      *)
(*   - Geo2DData: add_part / remove_part / add_edge / remove_edge          *)
(*   - Geo3DData.xsec_to_2d: grouping of the cross-section fragments by    *)
(*     part, the containment graph, cavity resolution with the solid       *)
(*     membership query, output naming and the FreeCAD document life cycle *)
(*   - the frame of the cutting plane, _project and _inverse_project       *)
(*   - Geo3DData: add_part / remove_part                                   *)
(*   - Part3DData: the validation of the constructor's arguments           *)
(*                                                                         *)
(* Strings are sequences of tokens: the string "a_0_1" is <<"a","0","1">>, *)
(* the tokens being the pieces between the "_" separators; f"{n}_{i}" is   *)
(* Append(n, ToString(i)) and s.startswith(f"{n}_") is StartsWith(s, n).   *)
(*                                                                         *)
(* Plane geometry is a strip of GridN unit squares: a polygon is the union *)
(* of a set of squares (its "cells"); area is the number of cells,         *)
(* contains is inclusion and difference is set difference.  Coordinates    *)
(* are doubled, so that square c spans [2c-2, 2c] and midpoints stay       *)
(* integral.                                                               *)
(***************************************************************************)
EXTENDS Integers, Sequences, FiniteSets, TLC

VARIABLES
    geo_2d,                 \* a Geo2DData: [parts, edges, build_order, lunit]
    error,                  \* exception raised by the last call, "none" if it returned
    parts,                  \* Geo3DData.parts: part name -> Part3DData
    build_order,            \* Geo3DData.build_order
    polygons,               \* Geo3DData.xsecs[xsec_name]["polygons"], in dict order
    pc,                     \* position of the xsec_to_2d call
    part_polygons,          \* xsec_to_2d local: dict part name -> polygons, in dict order
    virtual_part_polygons,  \* xsec_to_2d local: the same for virtual parts
    part_i,                 \* position of the loop over part_polygons.items()
    poly_i,                 \* position of the loop over poly_list
    virt_i,                 \* position of the loop over virtual_part_polygons.items()
    cont_graph,             \* xsec_to_2d local: the containment graph of the current part
    polys_to_add,           \* xsec_to_2d local: the surviving polygons of the current part
    doc,                    \* the FreeCAD document "instance": "open" or "closed"
    opened,                 \* number of get_data("fcdoc") calls made
    queries,                \* history: the _is_inside calls made, in order
    added,                  \* history: the geo_2d.add_part calls that succeeded, in order
    axis,                   \* Geo3DData.xsecs[xsec_name]["axis"]
    distance,               \* Geo3DData.xsecs[xsec_name]["distance"]
    x_new,                  \* xsec_to_2d local: the cut axis
    y_new,                  \* xsec_to_2d local: the first in-plane axis
    z_new,                  \* xsec_to_2d local: the second in-plane axis
    point,                  \* a 3D point handed to _project
    projected,              \* _project(point)
    restored,               \* _inverse_project(projected)
    call,                   \* history: the last call made on a data object, its
                            \* arguments and the object as it was before the call
    part_3d                 \* the Part3DData bound by the last construction that returned

vars == <<geo_2d, error, parts, build_order, polygons, pc, part_polygons,
          virtual_part_polygons, part_i, poly_i, virt_i, cont_graph, polys_to_add,
          doc, opened, queries, added, axis, distance, x_new, y_new, z_new, point,
          projected, restored, call, part_3d>>

frameVars == <<axis, distance, x_new, y_new, z_new, point, projected, restored>>

xsecVars == <<parts, build_order, polygons, pc, part_polygons, virtual_part_polygons,
              part_i, poly_i, virt_i, cont_graph, polys_to_add, doc, opened, queries,
              added>>

callVars == <<call, part_3d>>

-----------------------------------------------------------------------------
(* Bounds *)

\* number of unit squares of the strip
GridN == 3
\* largest number of fragments of a cross-section
MaxFrags == 3
\* largest number of parts in Geo3DData.build_order
MaxParts == 2
\* largest length of Geo2DData.build_order explored by the Geo2DData calls
MaxBuildOrder == 4

-----------------------------------------------------------------------------
(* Strings, sequences and dicts *)

None == <<>>

\* no call has been made yet
NoCall == [op |-> "none"]

Range(s) == {s[i] : i \in DOMAIN s}

\* name.startswith(f"{part_name}_")
StartsWith(name, part_name) ==
    /\ Len(name) > Len(part_name)
    /\ SubSeq(name, 1, Len(part_name)) = part_name

\* f"{name}_{i}"
Indexed(name, i) == Append(name, ToString(i))

\* list.remove(x): removes the first occurrence
RemoveFirst(s, x) ==
    LET i == CHOOSE k \in DOMAIN s : s[k] = x /\ \A j \in 1..(k - 1) : s[j] # x
    IN  SubSeq(s, 1, i - 1) \o SubSeq(s, i + 1, Len(s))

\* d[k] = v on a dict kept as a sequence of [key, val] in insertion order
DictPut(d, k, v) ==
    IF \E i \in DOMAIN d : d[i].key = k
    THEN [i \in DOMAIN d |-> IF d[i].key = k THEN [key |-> k, val |-> v] ELSE d[i]]
    ELSE Append(d, [key |-> k, val |-> v])

\* del d[k] / d[k] = v on a dict kept as a function
DictDel(d, k) == [x \in (DOMAIN d) \ {k} |-> d[x]]
DictSet(d, k, v) == [x \in (DOMAIN d) \cup {k} |-> IF x = k THEN v ELSE d[x]]

-----------------------------------------------------------------------------
(* Geo2DData *)

\* Geo2DData.__init__
Geo2DData(lunit) ==
    [parts |-> <<>>, edges |-> <<>>, build_order |-> <<>>, lunit |-> lunit]

\* Geo2DData.add_part: the object after the call and the exception raised
add_part(self, part_name, part, overwrite) ==
    IF ~part.is_valid
    THEN [self |-> self, error |-> "ValueError"]
    ELSE IF part_name \in DOMAIN self.parts /\ ~overwrite
    THEN [self |-> self, error |-> "ValueError"]
    ELSE [self |-> [self EXCEPT !.parts = DictSet(self.parts, part_name, part),
                                !.build_order = Append(self.build_order, part_name)],
          error |-> "none"]

\* Geo2DData.remove_part
remove_part(self, part_name, ignore_if_absent) ==
    IF part_name \in DOMAIN self.parts
    THEN [self |-> [self EXCEPT !.parts = DictDel(self.parts, part_name),
                                !.build_order = RemoveFirst(self.build_order, part_name)],
          error |-> "none"]
    ELSE IF ~ignore_if_absent
    THEN [self |-> self, error |-> "ValueError"]
    ELSE [self |-> self, error |-> "none"]

\* Geo2DData.add_edge
add_edge(self, edge_name, edge, overwrite) ==
    IF edge_name \in DOMAIN self.edges /\ ~overwrite
    THEN [self |-> self, error |-> "ValueError"]
    ELSE [self |-> [self EXCEPT !.edges = DictSet(self.edges, edge_name, edge),
                                !.build_order = Append(self.build_order, edge_name)],
          error |-> "none"]

\* Geo2DData.remove_edge
remove_edge(self, edge_name, ignore_if_absent) ==
    IF edge_name \in DOMAIN self.edges
    THEN [self |-> [self EXCEPT !.edges = DictDel(self.edges, edge_name),
                                !.build_order = RemoveFirst(self.build_order, edge_name)],
          error |-> "none"]
    ELSE IF ~ignore_if_absent
    THEN [self |-> self, error |-> "ValueError"]
    ELSE [self |-> self, error |-> "none"]

\* the names, polygons and line strings the Geo2DData calls are made with
Names2D == {<<"a">>, <<"b">>}
PartInputs ==
    {[name |-> None, cells |-> {1}, is_valid |-> TRUE],
     [name |-> None, cells |-> {1, 2}, is_valid |-> TRUE],
     [name |-> None, cells |-> {1}, is_valid |-> FALSE]}
EdgeInputs == {"line"}

\* no cross-section frame is being built
FrameIdle ==
    /\ axis = None
    /\ distance = 0
    /\ x_new = None
    /\ y_new = None
    /\ z_new = None
    /\ point = None
    /\ projected = None
    /\ restored = None

Geo2DInit ==
    /\ geo_2d = Geo2DData("nm")
    /\ error = "none"
    /\ parts = <<>>
    /\ build_order = <<>>
    /\ polygons = <<>>
    /\ pc = "geo2d"
    /\ part_polygons = <<>>
    /\ virtual_part_polygons = <<>>
    /\ part_i = 0
    /\ poly_i = 0
    /\ virt_i = 0
    /\ cont_graph = <<>>
    /\ polys_to_add = <<>>
    /\ doc = "closed"
    /\ opened = 0
    /\ queries = <<>>
    /\ added = <<>>
    /\ FrameIdle
    /\ call = NoCall
    /\ part_3d = None

Geo2DAddPart ==
    /\ pc = "geo2d"
    /\ Len(geo_2d.build_order) < MaxBuildOrder
    /\ \E part_name \in Names2D, part \in PartInputs, overwrite \in BOOLEAN :
          LET r == add_part(geo_2d, part_name, part, overwrite)
          IN  /\ geo_2d' = r.self
              /\ error' = r.error
              /\ call' = [op |-> "Geo2DData.add_part", self |-> geo_2d,
                          name |-> part_name, part |-> part, flag |-> overwrite]
    /\ UNCHANGED part_3d
    /\ UNCHANGED xsecVars
    /\ UNCHANGED frameVars

Geo2DRemovePart ==
    /\ pc = "geo2d"
    /\ \E part_name \in Names2D, ignore_if_absent \in BOOLEAN :
          LET r == remove_part(geo_2d, part_name, ignore_if_absent)
          IN  /\ geo_2d' = r.self
              /\ error' = r.error
              /\ call' = [op |-> "Geo2DData.remove_part", self |-> geo_2d,
                          name |-> part_name, part |-> None, flag |-> ignore_if_absent]
    /\ UNCHANGED part_3d
    /\ UNCHANGED xsecVars
    /\ UNCHANGED frameVars

Geo2DAddEdge ==
    /\ pc = "geo2d"
    /\ Len(geo_2d.build_order) < MaxBuildOrder
    /\ \E edge_name \in Names2D, edge \in EdgeInputs, overwrite \in BOOLEAN :
          LET r == add_edge(geo_2d, edge_name, edge, overwrite)
          IN  /\ geo_2d' = r.self
              /\ error' = r.error
              /\ call' = [op |-> "Geo2DData.add_edge", self |-> geo_2d,
                          name |-> edge_name, part |-> edge, flag |-> overwrite]
    /\ UNCHANGED part_3d
    /\ UNCHANGED xsecVars
    /\ UNCHANGED frameVars

Geo2DRemoveEdge ==
    /\ pc = "geo2d"
    /\ \E edge_name \in Names2D, ignore_if_absent \in BOOLEAN :
          LET r == remove_edge(geo_2d, edge_name, ignore_if_absent)
          IN  /\ geo_2d' = r.self
              /\ error' = r.error
              /\ call' = [op |-> "Geo2DData.remove_edge", self |-> geo_2d,
                          name |-> edge_name, part |-> None, flag |-> ignore_if_absent]
    /\ UNCHANGED part_3d
    /\ UNCHANGED xsecVars
    /\ UNCHANGED frameVars

Geo2DNext == Geo2DAddPart \/ Geo2DRemovePart \/ Geo2DAddEdge \/ Geo2DRemoveEdge

SpecGeo2D == Geo2DInit /\ [][Geo2DNext]_vars

-----------------------------------------------------------------------------
(* C2: after any sequence of add_part, add_edge, remove_part and          *)
(* remove_edge calls on a Geo2DData, len(build_order) equals              *)
(* len(parts) + len(edges).                                               *)
BuildOrderLengthIsPartsPlusEdges ==
    Len(geo_2d.build_order)
        = Cardinality(DOMAIN geo_2d.parts) + Cardinality(DOMAIN geo_2d.edges)

(* C3: every name in a Geo2DData's build_order is a current key of parts  *)
(* or of edges, so a removed name no longer occurs in build_order.        *)
BuildOrderNamesArePresent ==
    \A n \in Range(geo_2d.build_order) :
        n \in DOMAIN geo_2d.parts \/ n \in DOMAIN geo_2d.edges

-----------------------------------------------------------------------------
(* shapely on the strip *)

\* Polygon.area
Area(poly) == Cardinality(poly.cells)

\* Polygon.contains(other)
Contains(self, other) == other.cells # {} /\ other.cells \subseteq self.cells

\* Polygon.difference(other): a new object, which has no name attribute
Difference(self, other) ==
    [name |-> None, cells |-> self.cells \ other.cells, is_valid |-> TRUE]

\* sorted(poly_list, key=lambda p: p.area): a stable sort
RECURSIVE SortedByArea(_)
SortedByArea(poly_list) ==
    IF poly_list = <<>>
    THEN <<>>
    ELSE LET front == SortedByArea(SubSeq(poly_list, 1, Len(poly_list) - 1))
             last == poly_list[Len(poly_list)]
             k == Cardinality({i \in DOMAIN front : Area(front[i]) <= Area(last)})
         IN  SubSeq(front, 1, k) \o <<last>> \o SubSeq(front, k + 1, Len(front))

-----------------------------------------------------------------------------
(* Geo3DData.xsec_to_2d: _build_containment_graph *)

\* the inner loop with no break: every bigger polygon that contains poly
ContainersNoBreak(poly_by_area, i) ==
    {j \in (i + 1)..Len(poly_by_area) : Contains(poly_by_area[j], poly_by_area[i])}

\* the inner loop over poly_by_area[i:] in place of poly_by_area[i + 1:]
ContainersOrSelf(poly_by_area, i) ==
    LET bigger == {j \in i..Len(poly_by_area) :
                      Contains(poly_by_area[j], poly_by_area[i])}
    IN  {j \in bigger : \A k \in bigger : j <= k}

\* the inner loop: the positions in poly_by_area[i + 1:] whose graph entry gets
\* poly_by_area[i] appended, which is the first that contains it, if any
Containers(poly_by_area, i) ==
    LET bigger == {j \in (i + 1)..Len(poly_by_area) :
                      Contains(poly_by_area[j], poly_by_area[i])}
    IN  {j \in bigger : \A k \in bigger : j <= k}

\* the outer loop, from position i on
RECURSIVE GraphLoop(_, _, _)
GraphLoop(poly_by_area, i, graph) ==
    IF i > Len(poly_by_area)
    THEN graph
    ELSE LET into == {poly_by_area[j].name : j \in Containers(poly_by_area, i)}
         IN  GraphLoop(poly_by_area, i + 1,
                       [n \in DOMAIN graph |->
                           IF n \in into THEN Append(graph[n], poly_by_area[i])
                           ELSE graph[n]])

build_containment_graph(poly_list) ==
    GraphLoop(SortedByArea(poly_list), 1,
              [n \in {poly_list[k].name : k \in DOMAIN poly_list} |-> <<>>])

-----------------------------------------------------------------------------
(* Geo3DData.xsec_to_2d: _is_inside, up to the query *)

\* The point _is_inside asks about: x is the middle of the bounding box, y the
\* middle of the first piece of the line through x that lies in the polygon.
\* The unpacking of poly.bounds raises for an empty polygon and that of
\* intersec.xy raises when the line misses the polygon.
RepresentativePoint(poly) ==
    IF poly.cells = {}
    THEN [raised |-> TRUE, x |-> 0, y |-> 0]
    ELSE LET min_c == CHOOSE c \in poly.cells : \A d \in poly.cells : c <= d
             max_c == CHOOSE c \in poly.cells : \A d \in poly.cells : c >= d
             x == ((2 * min_c - 2) + 2 * max_c) \div 2
             intersec == {c \in poly.cells : 2 * c - 2 <= x /\ x <= 2 * c}
         IN  IF intersec = {}
             THEN [raised |-> TRUE, x |-> 0, y |-> 0]
             ELSE [raised |-> FALSE, x |-> x, y |-> (0 + 2) \div 2]

-----------------------------------------------------------------------------
(* Geo3DData.xsec_to_2d: grouping, resolution and output *)

\* a grouping that gives each fragment to the first part whose name matches
PolygonsOfFirstMatch(part_name) ==
    SelectSeq(polygons, LAMBDA poly :
        /\ StartsWith(poly.name, part_name)
        /\ \A i \in DOMAIN build_order :
              StartsWith(poly.name, build_order[i])
                  => \E j \in 1..i : build_order[j] = part_name)

\* the polygons of the cross-section whose name starts with part_name + "_"
PolygonsOf(part_name) ==
    SelectSeq(polygons, LAMBDA poly : StartsWith(poly.name, part_name))

\* the test that sends a group to virtual_part_polygons, never taken
IsVirtualNever(part) == FALSE

\* self.parts[part_name].domain_type == "virtual"
IsVirtual(part) == part.domain_type = "virtual"

\* the loop over self.build_order from position i on: the two dicts, or the
\* KeyError of self.parts[part_name]
RECURSIVE GroupLoop(_, _, _)
GroupLoop(i, physical, virtual) ==
    IF i > Len(build_order)
    THEN [physical |-> physical, virtual |-> virtual, error |-> "none"]
    ELSE LET part_name == build_order[i]
             polys == PolygonsOf(part_name)
         IN  IF polys = <<>>
             THEN GroupLoop(i + 1, physical, virtual)
             ELSE IF part_name \notin DOMAIN parts
             THEN [physical |-> physical, virtual |-> virtual, error |-> "KeyError"]
             ELSE IF IsVirtual(parts[part_name])
             THEN GroupLoop(i + 1, physical, DictPut(virtual, part_name, polys))
             ELSE GroupLoop(i + 1, DictPut(physical, part_name, polys), virtual)

\* the loop that subtracts the interior polygons of poly, from position i on
RECURSIVE SubtractLoop(_, _, _)
SubtractLoop(poly, interior, i) ==
    IF i > Len(interior)
    THEN poly
    ELSE SubtractLoop(Difference(poly, interior[i]), interior, i + 1)

\* what is subtracted from a fragment when nothing is
InteriorNone(graph, poly) == <<>>

\* cont_graph[poly.name]
Interior(graph, poly) == graph[poly.name]

\* a naming that numbers a single polygon too
OutputCallsAlwaysIndexed(name, poly_list) ==
    [i \in DOMAIN poly_list |-> [name |-> Indexed(name, i - 1), part |-> poly_list[i]]]

\* the add_part calls made for a part: its own name for a single polygon,
\* f"{name}_{i}" otherwise
OutputCalls(name, poly_list) ==
    IF Len(poly_list) = 1
    THEN <<[name |-> name, part |-> poly_list[1]]>>
    ELSE [i \in DOMAIN poly_list |->
             [name |-> Indexed(name, i - 1), part |-> poly_list[i]]]

\* geo_2d.add_part for each call from position i on, until one raises; done is
\* the number of calls that returned
RECURSIVE AddLoop(_, _, _)
AddLoop(self, calls, i) ==
    IF i > Len(calls)
    THEN [self |-> self, error |-> "none", done |-> Len(calls)]
    ELSE LET r == add_part(self, calls[i].name, calls[i].part, FALSE)
         IN  IF r.error # "none"
             THEN [self |-> r.self, error |-> r.error, done |-> i - 1]
             ELSE AddLoop(r.self, calls, i + 1)

\* the calls of owner that returned, as the history keeps them
AddedBy(owner, calls, done) ==
    [k \in 1..done |-> [owner |-> owner, name |-> calls[k].name, part |-> calls[k].part]]

\* a query that keeps the polygon whatever the answer
KeepsAlways(answer) == TRUE

\* if _is_inside(poly, self.parts[name])
Keeps(answer) == answer = "true"

\* the same without the call of self.get_data("fcdoc")
XsecBeginNoActivation ==
    /\ pc = "start"
    /\ LET g == GroupLoop(1, <<>>, <<>>)
       IN  IF g.error # "none"
           THEN /\ pc' = "raised"
                /\ error' = g.error
                /\ UNCHANGED <<geo_2d, part_polygons, virtual_part_polygons, part_i,
                               virt_i>>
           ELSE /\ part_polygons' = g.physical
                /\ virtual_part_polygons' = g.virtual
                /\ geo_2d' = Geo2DData("nm")
                /\ part_i' = 1
                /\ virt_i' = 1
                /\ pc' = "loop"
                /\ error' = "none"
    /\ UNCHANGED <<doc, opened>>
    /\ UNCHANGED <<parts, build_order, polygons, poly_i, cont_graph, polys_to_add,
                   queries, added>>
    /\ UNCHANGED frameVars
    /\ UNCHANGED callVars

\* lines 541-670: the frame, the two dicts, geo_2d and the activation of the document
XsecBegin ==
    /\ pc = "start"
    /\ LET g == GroupLoop(1, <<>>, <<>>)
       IN  IF g.error # "none"
           THEN /\ pc' = "raised"
                /\ error' = g.error
                /\ UNCHANGED <<geo_2d, part_polygons, virtual_part_polygons, part_i,
                               virt_i, doc, opened>>
           ELSE /\ part_polygons' = g.physical
                /\ virtual_part_polygons' = g.virtual
                /\ geo_2d' = Geo2DData("nm")
                /\ doc' = "open"
                /\ opened' = opened + 1
                /\ part_i' = 1
                /\ virt_i' = 1
                /\ pc' = "loop"
                /\ error' = "none"
    /\ UNCHANGED <<parts, build_order, polygons, poly_i, cont_graph, polys_to_add,
                   queries, added>>
    /\ UNCHANGED frameVars
    /\ UNCHANGED callVars

\* lines 671-673: the next physical part, its containment graph
XsecGraph ==
    /\ pc = "loop"
    /\ part_i <= Len(part_polygons)
    /\ cont_graph' = build_containment_graph(part_polygons[part_i].val)
    /\ polys_to_add' = <<>>
    /\ poly_i' = 1
    /\ pc' = "resolve"
    /\ UNCHANGED <<geo_2d, error, parts, build_order, polygons, part_polygons,
                   virtual_part_polygons, part_i, virt_i, doc, opened, queries, added>>
    /\ UNCHANGED frameVars
    /\ UNCHANGED callVars

\* lines 677-681: one fragment: the subtraction, the query, the decision
XsecResolve ==
    /\ pc = "resolve"
    /\ poly_i <= Len(part_polygons[part_i].val)
    /\ LET name == part_polygons[part_i].key
           fragment == part_polygons[part_i].val[poly_i]
           interior == Interior(cont_graph, fragment)
           poly == SubtractLoop(fragment, interior, 1)
           rep == RepresentativePoint(poly)
           query == [part |-> name, fragment |-> fragment.name,
                     subtracted |-> [k \in DOMAIN interior |-> interior[k].name],
                     poly |-> poly, at |-> <<rep.x, rep.y>>, doc |-> doc]
       IN  IF rep.raised
           THEN /\ pc' = "raised"
                /\ error' = "GeometryError"
                /\ UNCHANGED <<poly_i, polys_to_add, queries>>
           ELSE \/ /\ \E answer \in {"true", "false"} :
                        /\ queries' = Append(queries, query @@ [answer |-> answer])
                        /\ polys_to_add' = IF Keeps(answer)
                                           THEN Append(polys_to_add, poly)
                                           ELSE polys_to_add
                   /\ poly_i' = poly_i + 1
                   /\ UNCHANGED <<pc, error>>
                \/ /\ queries' = Append(queries, query @@ [answer |-> "error"])
                   /\ pc' = "raised"
                   /\ error' = "ServiceError"
                   /\ UNCHANGED <<poly_i, polys_to_add>>
    /\ UNCHANGED <<geo_2d, parts, build_order, polygons, part_polygons,
                   virtual_part_polygons, part_i, virt_i, cont_graph, doc, opened,
                   added>>
    /\ UNCHANGED frameVars
    /\ UNCHANGED callVars

\* lines 682-688: the output of one physical part
XsecEmit ==
    /\ pc = "resolve"
    /\ poly_i > Len(part_polygons[part_i].val)
    /\ LET name == part_polygons[part_i].key
           calls == IF polys_to_add = <<>> THEN <<>> ELSE OutputCalls(name, polys_to_add)
           r == AddLoop(geo_2d, calls, 1)
       IN  /\ geo_2d' = r.self
           /\ added' = added \o AddedBy(name, calls, r.done)
           /\ error' = r.error
           /\ IF r.error # "none"
              THEN pc' = "raised" /\ UNCHANGED part_i
              ELSE pc' = "loop" /\ part_i' = part_i + 1
    /\ UNCHANGED <<parts, build_order, polygons, part_polygons, virtual_part_polygons,
                   poly_i, virt_i, cont_graph, polys_to_add, doc, opened, queries>>
    /\ UNCHANGED frameVars
    /\ UNCHANGED callVars

\* lines 691-696: the output of one virtual part
XsecVirtual ==
    /\ pc = "loop"
    /\ part_i > Len(part_polygons)
    /\ virt_i <= Len(virtual_part_polygons)
    /\ LET name == virtual_part_polygons[virt_i].key
           calls == OutputCalls(name, virtual_part_polygons[virt_i].val)
           r == AddLoop(geo_2d, calls, 1)
       IN  /\ geo_2d' = r.self
           /\ added' = added \o AddedBy(name, calls, r.done)
           /\ error' = r.error
           /\ IF r.error # "none"
              THEN pc' = "raised" /\ UNCHANGED virt_i
              ELSE pc' = "loop" /\ virt_i' = virt_i + 1
    /\ UNCHANGED <<parts, build_order, polygons, part_polygons, virtual_part_polygons,
                   part_i, poly_i, cont_graph, polys_to_add, doc, opened, queries>>
    /\ UNCHANGED frameVars
    /\ UNCHANGED callVars

\* lines 698-701: lunit, FreeCAD.closeDocument("instance"), return
XsecClose ==
    /\ pc = "loop"
    /\ part_i > Len(part_polygons)
    /\ virt_i > Len(virtual_part_polygons)
    /\ geo_2d' = [geo_2d EXCEPT !.lunit = None]
    /\ doc' = "closed"
    /\ pc' = "returned"
    /\ UNCHANGED <<error, parts, build_order, polygons, part_polygons,
                   virtual_part_polygons, part_i, poly_i, virt_i, cont_graph,
                   polys_to_add, opened, queries, added>>
    /\ UNCHANGED frameVars
    /\ UNCHANGED callVars

-----------------------------------------------------------------------------
(* The geometries xsec_to_2d is called on *)

PartNames == {<<"a">>, <<"b">>, <<"a", "0">>}

\* build orders without repetition
BuildOrders ==
    UNION {{s \in [1..n -> PartNames] : \A i, j \in 1..n : i # j => s[i] # s[j]} :
              n \in 0..MaxParts}

\* "semiconductor" stands for the three domain types that are not "virtual"
XsecDomainTypes == {"semiconductor", "virtual"}

\* the parts dicts: a part of build_order may have been removed from parts
PartsOf(order) ==
    UNION {{[n \in S |-> [label |-> n, domain_type |-> dt[n]]] :
               dt \in [S -> XsecDomainTypes]} : S \in SUBSET Range(order)}

\* Polygon(map(_project, points)) of the fragments: the cross-sections start
\* from the fragments as they lie in the plane, which are intervals of the strip
Shapes == {lo..hi : lo \in 1..GridN, hi \in 1..GridN} \ {{}}

\* the polygons dicts: the k-th fragment is named f"{owner}_{k - 1}", its
\* owner a part of build_order
PolygonDicts(order) ==
    UNION {{[k \in 1..n |-> [name |-> Indexed(c[k][1], k - 1), cells |-> c[k][2],
                             is_valid |-> TRUE]] :
               c \in [1..n -> Range(order) \X Shapes]} : n \in 0..MaxFrags}

XsecInit ==
    /\ build_order \in BuildOrders
    /\ parts \in PartsOf(build_order)
    /\ polygons \in PolygonDicts(build_order)
    /\ geo_2d = Geo2DData("nm")
    /\ error = "none"
    /\ pc = "start"
    /\ part_polygons = <<>>
    /\ virtual_part_polygons = <<>>
    /\ part_i = 0
    /\ poly_i = 0
    /\ virt_i = 0
    /\ cont_graph = <<>>
    /\ polys_to_add = <<>>
    /\ doc = "closed"
    /\ opened = 0
    /\ queries = <<>>
    /\ added = <<>>
    /\ FrameIdle
    /\ call = NoCall
    /\ part_3d = None

XsecNext == XsecBegin \/ XsecGraph \/ XsecResolve \/ XsecEmit \/ XsecVirtual \/ XsecClose

SpecXsec == XsecInit /\ [][XsecNext]_vars

-----------------------------------------------------------------------------
(* Vocabulary of the properties of xsec_to_2d *)

\* the polygons of the physical part being processed
PolyList == part_polygons[part_i].val

DistinctAreas(poly_list) ==
    \A i, j \in DOMAIN poly_list : i # j => Area(poly_list[i]) # Area(poly_list[j])

\* X is the smallest-area polygon of poly_list, other than P, that contains P
IsSmallestContainer(poly_list, X, P) ==
    /\ X # P
    /\ Contains(X, P)
    /\ \A Y \in Range(poly_list) : (Y # P /\ Contains(Y, P)) => Area(X) <= Area(Y)

\* the values of a dict kept as a sequence, by key
Keys(d) == [i \in DOMAIN d |-> d[i].key]
HasKey(d, k) == \E i \in DOMAIN d : d[i].key = k
Lookup(d, k) == d[CHOOSE i \in DOMAIN d : d[i].key = k].val

\* the call has built its two dicts and activated the document
Grouped == pc \in {"loop", "resolve", "returned"} \/ (pc = "raised" /\ opened > 0)

\* the parts of build_order whose name followed by "_" starts the name
Owners(name) == {n \in Range(build_order) : StartsWith(name, n)}

\* the add_part calls a part made that returned: their names and polygons
CallsOf(owner) ==
    LET mine == SelectSeq(added, LAMBDA a : a.owner = owner)
    IN  [i \in DOMAIN mine |-> [name |-> mine[i].name, part |-> mine[i].part]]

\* the queries made for a part, and the polygons of those answered true
QueriesOf(part_name) == SelectSeq(queries, LAMBDA q : q.part = part_name)
InsideOf(part_name) ==
    LET yes == SelectSeq(queries, LAMBDA q : q.part = part_name /\ q.answer = "true")
    IN  [i \in DOMAIN yes |-> yes[i].poly]

\* the names the naming rule gives k polygons of a part
NamesFor(name, k) ==
    IF k = 1 THEN <<name>> ELSE [i \in 1..k |-> Append(name, ToString(i - 1))]

-----------------------------------------------------------------------------
(* C1: xsec_to_2d closes the document "instance" on every exit path: once *)
(* the call has opened the document, the document is closed when the call *)
(* has returned or raised.                                                *)
DocumentClosedOnEveryExit ==
    (pc \in {"returned", "raised"} /\ opened > 0) => doc = "closed"

(* C4: _build_containment_graph records only immediate containment: for   *)
(* polygons of pairwise distinct areas, P is in graph[X] if and only if X *)
(* is the smallest-area polygon that contains P, and P is there once.     *)
ImmediateContainmentOnly ==
    (pc = "resolve" /\ DistinctAreas(PolyList)) =>
        \A X, P \in Range(PolyList) :
            /\ (\E k \in DOMAIN cont_graph[X.name] : cont_graph[X.name][k] = P)
                  <=> IsSmallestContainer(PolyList, X, P)
            /\ Cardinality({k \in DOMAIN cont_graph[X.name] :
                               cont_graph[X.name][k] = P}) <= 1

\* a strict nesting chain A contains B contains C with the edges A->B and B->C only
NestingChainGraphed ==
    /\ pc = "resolve"
    /\ Len(PolyList) = 3
    /\ \E A, B, C \in Range(PolyList) :
          /\ Area(A) > Area(B) /\ Area(B) > Area(C)
          /\ Contains(A, B) /\ Contains(B, C)
          /\ cont_graph[A.name] = <<B>>
          /\ cont_graph[B.name] = <<C>>
          /\ cont_graph[C.name] = <<>>

(* C5: output naming of a physical part with k surviving polygons: k = 1  *)
(* adds exactly one entry, under the part's own name; k > 1 adds exactly  *)
(* the entries {part}_0 .. {part}_{k-1}, the i-th survivor under index i; *)
(* k = 0 adds nothing and raises nothing.                                 *)
OutputNaming ==
    [][(pc = "resolve" /\ poly_i > Len(PolyList)) =>
          LET name == part_polygons[part_i].key
              k == Len(polys_to_add)
              names == NamesFor(name, k)
          IN  /\ k = 0 => (pc' = "loop" /\ geo_2d' = geo_2d /\ added' = added)
              /\ pc' = "loop" =>
                    /\ \A i, j \in 1..k : i # j => names[i] # names[j]
                    /\ DOMAIN geo_2d'.parts = DOMAIN geo_2d.parts \cup Range(names)
                    /\ DOMAIN geo_2d.parts \cap Range(names) = {}
                    /\ \A i \in 1..k : geo_2d'.parts[names[i]] = polys_to_add[i]
                    /\ \A n \in DOMAIN geo_2d.parts : geo_2d'.parts[n] = geo_2d.parts[n]
                    /\ geo_2d'.build_order = geo_2d.build_order \o names
      ]_vars

\* a part came out as two disjoint polygons {part}_0 and {part}_1
TwoDisjointSurvivorsNamed ==
    /\ pc = "returned"
    /\ \E i \in DOMAIN part_polygons :
          LET name == part_polygons[i].key
          IN  /\ Len(InsideOf(name)) = 2
              /\ DOMAIN geo_2d.parts = {Append(name, "0"), Append(name, "1")}
              /\ geo_2d.parts[Append(name, "0")].cells
                    \cap geo_2d.parts[Append(name, "1")].cells = {}
              /\ geo_2d.parts[Append(name, "0")] = InsideOf(name)[1]

(* C6: the resolved polygon of a fragment of a physical part is kept if   *)
(* and only if its membership query answers true: the survivors of the    *)
(* part being processed, and the polygons a part has put in the output,   *)
(* are the resolved polygons whose query answered true, in order.         *)
KeptIffInside ==
    /\ pc = "resolve" =>
          /\ polys_to_add = InsideOf(part_polygons[part_i].key)
          /\ LET asked == QueriesOf(part_polygons[part_i].key)
             IN  /\ Len(asked) = poly_i - 1
                 /\ \A i \in DOMAIN asked : asked[i].fragment = PolyList[i].name
    /\ pc = "returned" =>
          \A i \in DOMAIN part_polygons :
              LET name == part_polygons[i].key
                  calls == CallsOf(name)
              IN  /\ [c \in DOMAIN calls |-> calls[c].part] = InsideOf(name)
                  /\ Len(QueriesOf(name)) = Len(part_polygons[i].val)
                  /\ \A c \in DOMAIN calls :
                        /\ calls[c].name \in DOMAIN geo_2d.parts
                        /\ geo_2d.parts[calls[c].name] = calls[c].part

\* a part with a fragment answered true (kept) and one answered false (dropped)
MaterialKeptCavityDropped ==
    /\ pc = "returned"
    /\ \E i, j \in DOMAIN queries :
          /\ queries[i].part = queries[j].part
          /\ queries[i].answer = "true"
          /\ queries[j].answer = "false"
          /\ queries[i].poly.cells # queries[j].poly.cells
          /\ \E n \in DOMAIN geo_2d.parts : geo_2d.parts[n] = queries[i].poly
          /\ \A n \in DOMAIN geo_2d.parts : geo_2d.parts[n] # queries[j].poly

(* C7: cavity resolution subtracts exactly the immediate children: the    *)
(* region tested for a fragment p is p minus the union of the polygons in *)
(* graph[p.name], which, for distinct areas, are those whose smallest     *)
(* container is p; with one child the area is the outer area minus the    *)
(* child's and the hole is the child's region.                            *)
SubtractsImmediateChildren ==
    \A i \in DOMAIN queries :
        LET q == queries[i]
            group == Lookup(part_polygons, q.part)
            p == CHOOSE f \in Range(group) : f.name = q.fragment
            graph == build_containment_graph(group)
            children == Range(graph[p.name])
        IN  /\ Range(q.subtracted) = {c.name : c \in children}
            /\ Len(q.subtracted) = Cardinality(children)
            /\ q.poly.cells = p.cells \ UNION {c.cells : c \in children}
            /\ DistinctAreas(group) =>
                  children = {c \in Range(group) : IsSmallestContainer(group, p, c)}
            /\ \A c \in children :
                  children = {c} =>
                      /\ Area(q.poly) = Area(p) - Area(c)
                      /\ p.cells \ q.poly.cells = c.cells

\* the outermost polygon of a chain of three was tested with only its child removed
OuterTestedWithoutGrandchild ==
    /\ pc = "returned"
    /\ \E i \in DOMAIN queries :
          LET q == queries[i]
              group == Lookup(part_polygons, q.part)
          IN  /\ Len(group) = 3
              /\ DistinctAreas(group)
              /\ Len(q.subtracted) = 1
              /\ \E p, c, g \in Range(group) :
                    /\ p.name = q.fragment
                    /\ c.name = q.subtracted[1]
                    /\ Contains(p, c) /\ Contains(c, g) /\ g # c /\ c # p
                    /\ Area(q.poly) = Area(p) - Area(c)
              /\ q.answer = "true"

(* C8: virtual parts bypass resolution: no membership query is made for a *)
(* virtual part, and every fragment of a virtual part is added to the     *)
(* output unchanged, none discarded, under the part's name when the part  *)
(* has one fragment and {part}_{i} in fragment order otherwise.           *)
VirtualPartsBypassResolution ==
    /\ Grouped =>
          /\ \A i \in DOMAIN queries :
                /\ parts[queries[i].part].domain_type # "virtual"
                /\ ~HasKey(virtual_part_polygons, queries[i].part)
          /\ \A n \in Range(build_order) :
                (n \in DOMAIN parts /\ parts[n].domain_type = "virtual"
                    /\ \E k \in DOMAIN polygons : StartsWith(polygons[k].name, n))
                  <=> HasKey(virtual_part_polygons, n)
          /\ \A k \in DOMAIN polygons :
                (\A n \in Owners(polygons[k].name) : HasKey(virtual_part_polygons, n))
                  => \A i \in DOMAIN queries :
                        /\ queries[i].fragment # polygons[k].name
                        /\ polygons[k].name \notin Range(queries[i].subtracted)
    /\ pc = "returned" =>
          \A v \in DOMAIN virtual_part_polygons :
              LET name == virtual_part_polygons[v].key
                  fragments == SelectSeq(polygons, LAMBDA f : StartsWith(f.name, name))
                  names == NamesFor(name, Len(fragments))
              IN  /\ CallsOf(name) = [i \in DOMAIN fragments |->
                                         [name |-> names[i], part |-> fragments[i]]]
                  /\ \A i \in DOMAIN fragments :
                        geo_2d.parts[names[i]] = fragments[i]

\* a virtual part with two nested or overlapping fragments came out beside a
\* physical part that was queried
VirtualFragmentsAddedAsIs ==
    /\ pc = "returned"
    /\ queries # <<>>
    /\ \E v \in DOMAIN virtual_part_polygons :
          LET name == virtual_part_polygons[v].key
              fragments == virtual_part_polygons[v].val
          IN  /\ Len(fragments) = 2
              /\ fragments[1].cells \cap fragments[2].cells # {}
              /\ \E i \in DOMAIN queries :
                    queries[i].poly.cells \cap fragments[1].cells # {}
              /\ geo_2d.parts[Append(name, "0")] = fragments[1]
              /\ geo_2d.parts[Append(name, "1")] = fragments[2]

(* C9 as stated: every fragment, its name being {partName}_{suffix} for a *)
(* part of build_order, is placed in the group of exactly one part.       *)
FragmentInExactlyOneGroup ==
    Grouped =>
        \A k \in DOMAIN polygons :
            Cardinality({n \in Range(Keys(part_polygons)) \cup Range(Keys(virtual_part_polygons)) :
                            polygons[k] \in Range(Lookup(part_polygons \o virtual_part_polygons, n))})
                = 1

(* C9, amended: a fragment is placed in the group of every part of        *)
(* build_order whose name followed by "_" starts the fragment's name and  *)
(* of no other part, so a fragment whose name matches exactly one part is *)
(* in exactly one group; a group keeps the fragments in dict order, and   *)
(* the groups are formed in build order.                                  *)
FragmentsGroupedByPrefix ==
    Grouped =>
        LET groups == part_polygons \o virtual_part_polygons
        IN  /\ \A k \in DOMAIN polygons :
                  /\ {n \in Range(Keys(groups)) : polygons[k] \in Range(Lookup(groups, n))}
                        = Owners(polygons[k].name)
                  /\ Cardinality(Owners(polygons[k].name)) = 1 =>
                        Cardinality({g \in DOMAIN groups :
                                        polygons[k] \in Range(groups[g].val)}) = 1
            /\ \A g \in DOMAIN groups :
                  groups[g].val = SelectSeq(polygons,
                                      LAMBDA f : StartsWith(f.name, groups[g].key))
            /\ \A g, h \in DOMAIN groups : g # h => groups[g].key # groups[h].key
            /\ Keys(part_polygons) =
                  SelectSeq(build_order, LAMBDA n : HasKey(part_polygons, n))
            /\ Keys(virtual_part_polygons) =
                  SelectSeq(build_order, LAMBDA n : HasKey(virtual_part_polygons, n))

\* two parts, neither name a prefix of the other, each with its own group
TwoPartsTwoGroups ==
    /\ Grouped
    /\ Len(build_order) = 2
    /\ Len(polygons) = 3
    /\ \A k \in DOMAIN polygons : Cardinality(Owners(polygons[k].name)) = 1
    /\ Len(part_polygons) = 2
    /\ Keys(part_polygons) = build_order
    /\ Len(part_polygons[1].val) = 1
    /\ Len(part_polygons[2].val) = 2

ChildNames(graph, n) == {graph[n][k].name : k \in DOMAIN graph[n]}

RECURSIVE Descendants(_, _, _)
Descendants(graph, S, k) ==
    IF k = 0
    THEN S
    ELSE Descendants(graph, S \cup UNION {ChildNames(graph, n) : n \in S}, k - 1)

ContainmentGraphIsForest ==
    pc = "resolve" =>
        /\ DOMAIN cont_graph = {PolyList[k].name : k \in DOMAIN PolyList}
        /\ \A n \in DOMAIN cont_graph : Range(cont_graph[n]) \subseteq Range(PolyList)
        /\ \A P \in Range(PolyList) :
              /\ Cardinality({n \in DOMAIN cont_graph : P \in Range(cont_graph[n])}) <= 1
              /\ \A n \in DOMAIN cont_graph :
                    Cardinality({k \in DOMAIN cont_graph[n] : cont_graph[n][k] = P}) <= 1
        /\ \A n \in DOMAIN cont_graph :
              /\ n \notin ChildNames(cont_graph, n)
              /\ n \notin Descendants(cont_graph, ChildNames(cont_graph, n),
                                      Cardinality(DOMAIN cont_graph))

\* a tree of three: one polygon holds the two others, which hold nothing
RootWithTwoChildren ==
    /\ pc = "resolve"
    /\ Len(PolyList) = 3
    /\ \E A, B, C \in Range(PolyList) :
          /\ B # C
          /\ Range(cont_graph[A.name]) = {B, C}
          /\ cont_graph[B.name] = <<>>
          /\ cont_graph[C.name] = <<>>

-----------------------------------------------------------------------------
(* Geo3DData.xsec_to_2d: the frame of the cutting plane, _project and      *)
(* _inverse_project.  Numbers are exact fractions: a scalar is [n, d] and  *)
(* a vector [v, den], v the three numerators over the denominator den,     *)
(* both in lowest terms.                                                   *)

\* largest numerator of a component of the cut axis
AxisMax == 4
\* largest coordinate of a point
PointMax == 2

Abs(i) == IF i < 0 THEN -i ELSE i

RECURSIVE GCD(_, _)
GCD(a, b) == IF b = 0 THEN a ELSE GCD(b, a % b)

Frac(n, d) ==
    LET g == GCD(Abs(n), d)
    IN  [n |-> n \div g, d |-> d \div g]

Vec(v, den) ==
    LET g == GCD(GCD(Abs(v[1]), Abs(v[2])), GCD(Abs(v[3]), den))
    IN  [v |-> <<v[1] \div g, v[2] \div g, v[3] \div g>>, den |-> den \div g]

\* a * b, a - b, a + b and -a on arrays, a.dot(b), np.cross(a, b)
VecScale(s, a) == Vec(<<s.n * a.v[1], s.n * a.v[2], s.n * a.v[3]>>, s.d * a.den)
VecSub(a, b) ==
    Vec(<<a.v[1] * b.den - b.v[1] * a.den, a.v[2] * b.den - b.v[2] * a.den,
          a.v[3] * b.den - b.v[3] * a.den>>, a.den * b.den)
VecAdd(a, b) ==
    Vec(<<a.v[1] * b.den + b.v[1] * a.den, a.v[2] * b.den + b.v[2] * a.den,
          a.v[3] * b.den + b.v[3] * a.den>>, a.den * b.den)
VecNeg(a) == [v |-> <<-a.v[1], -a.v[2], -a.v[3]>>, den |-> a.den]
VecDot(a, b) == Frac(a.v[1] * b.v[1] + a.v[2] * b.v[2] + a.v[3] * b.v[3], a.den * b.den)
VecCross(a, b) ==
    Vec(<<a.v[2] * b.v[3] - a.v[3] * b.v[2], a.v[3] * b.v[1] - a.v[1] * b.v[3],
          a.v[1] * b.v[2] - a.v[2] * b.v[1]>>, a.den * b.den)

\* np.argmax(np.abs(x)): the first position of the largest component, from 0
ArgMaxAbs(x) ==
    CHOOSE i \in 0..2 :
        /\ \A j \in 0..2 : Abs(x.v[i + 1]) >= Abs(x.v[j + 1])
        /\ \A j \in 0..(i - 1) : Abs(x.v[j + 1]) < Abs(x.v[i + 1])

\* the seed of y_new
SeedAxis(ind) ==
    IF ind = 0 THEN [v |-> <<0, 1, 0>>, den |-> 1] ELSE [v |-> <<1, 0, 0>>, den |-> 1]

\* y_new -= y_new.dot(x_new) * x_new
InPlaneY(x, seed) == VecSub(seed, VecScale(VecDot(seed, x), x))

\* z_new = np.cross(x_new, y_new) with no sign adjustment
InPlaneZNoFlip(x, y) == VecCross(x, y)

\* z_new = np.cross(x_new, y_new); if z_new[2] < 0: z_new = -z_new
InPlaneZ(x, y) ==
    LET z == VecCross(x, y)
    IN  IF z.v[3] < 0 THEN VecNeg(z) ELSE z

\* _project(vec)
project(vec) ==
    LET moved == VecSub(vec, VecScale(Frac(distance, 1), x_new))
    IN  <<VecDot(moved, y_new), VecDot(moved, z_new)>>

\* _inverse_project(vec)
inverse_project(vec) ==
    VecAdd(VecAdd(VecScale(Frac(distance, 1), x_new), VecScale(vec[1], y_new)),
           VecScale(vec[2], z_new))

\* the unit vectors with numerators up to AxisMax, in lowest terms
Axes ==
    {Vec(<<a, b, c>>, n) :
        <<a, b, c, n>> \in {t \in (-AxisMax..AxisMax) \X (-AxisMax..AxisMax)
                                   \X (-AxisMax..AxisMax) \X (1..2 * AxisMax) :
                               t[1] * t[1] + t[2] * t[2] + t[3] * t[3] = t[4] * t[4]}}

Points ==
    {[v |-> <<a, b, c>>, den |-> 1] :
        a \in -PointMax..PointMax, b \in -PointMax..PointMax, c \in -PointMax..PointMax}

\* the point lies in the plane through distance * x perpendicular to x
InPlane(vec, x, dist) == VecDot(vec, x) = Frac(dist, 1)

FrameInit ==
    /\ axis \in Axes
    /\ point \in Points
    /\ distance \in -PointMax..PointMax
    /\ InPlane(point, axis, distance)
    /\ x_new = None
    /\ y_new = None
    /\ z_new = None
    /\ projected = None
    /\ restored = None
    /\ pc = "frame"
    /\ geo_2d = Geo2DData("nm")
    /\ error = "none"
    /\ parts = <<>>
    /\ build_order = <<>>
    /\ polygons = <<>>
    /\ part_polygons = <<>>
    /\ virtual_part_polygons = <<>>
    /\ part_i = 0
    /\ poly_i = 0
    /\ virt_i = 0
    /\ cont_graph = <<>>
    /\ polys_to_add = <<>>
    /\ doc = "closed"
    /\ opened = 0
    /\ queries = <<>>
    /\ added = <<>>
    /\ call = NoCall
    /\ part_3d = None

\* lines 541-548: the three axes
FrameBuild ==
    /\ pc = "frame"
    /\ x_new' = axis
    /\ y_new' = InPlaneY(axis, SeedAxis(ArgMaxAbs(axis)))
    /\ z_new' = InPlaneZ(axis, y_new')
    /\ pc' = "project"
    /\ UNCHANGED <<axis, distance, point, projected, restored, geo_2d, error>>
    /\ UNCHANGED <<parts, build_order, polygons, part_polygons, virtual_part_polygons,
                   part_i, poly_i, virt_i, cont_graph, polys_to_add, doc, opened,
                   queries, added>>
    /\ UNCHANGED callVars

\* lines 550-564: _project applied to the point
FrameProject ==
    /\ pc = "project"
    /\ projected' = project(point)
    /\ pc' = "inverse"
    /\ UNCHANGED <<axis, distance, x_new, y_new, z_new, point, restored, geo_2d, error>>
    /\ UNCHANGED <<parts, build_order, polygons, part_polygons, virtual_part_polygons,
                   part_i, poly_i, virt_i, cont_graph, polys_to_add, doc, opened,
                   queries, added>>
    /\ UNCHANGED callVars

\* lines 566-583: _inverse_project applied to the projection
FrameInverseProject ==
    /\ pc = "inverse"
    /\ restored' = inverse_project(projected)
    /\ pc' = "projected"
    /\ UNCHANGED <<axis, distance, x_new, y_new, z_new, point, projected, geo_2d, error>>
    /\ UNCHANGED <<parts, build_order, polygons, part_polygons, virtual_part_polygons,
                   part_i, poly_i, virt_i, cont_graph, polys_to_add, doc, opened,
                   queries, added>>
    /\ UNCHANGED callVars

FrameNext == FrameBuild \/ FrameProject \/ FrameInverseProject

SpecFrame == FrameInit /\ [][FrameNext]_vars

\* the frame of an axis-aligned cut, as the comment at lines 535-538 lists it
UnitVec(a, b, c) == [v |-> <<a, b, c>>, den |-> 1]

AxisAlignedFrames ==
    /\ axis = UnitVec(1, 0, 0) => (y_new = UnitVec(0, 1, 0) /\ z_new = UnitVec(0, 0, 1))
    /\ axis = UnitVec(0, 1, 0) => (y_new = UnitVec(1, 0, 0) /\ z_new = UnitVec(0, 0, 1))
    /\ axis = UnitVec(0, 0, 1) => (y_new = UnitVec(1, 0, 0) /\ z_new = UnitVec(0, 1, 0))

\* a is a positive multiple of b, for vectors of equal length
PositiveMultiple(a, b) ==
    /\ VecCross(a, b) = UnitVec(0, 0, 0)
    /\ VecDot(a, b).n > 0

(* C15 as stated: for every cut axis x the frame (x, y_new, z_new) is     *)
(* right-handed, z_new being a positive multiple of x cross y_new, after  *)
(* the sign adjustment, and z_new's world-z component is never negative;  *)
(* the axis-aligned cuts have the frames [1,0,0] -> y=[0,1,0], z=[0,0,1]; *)
(* [0,1,0] -> y=[1,0,0], z=[0,0,1]; [0,0,1] -> y=[1,0,0], z=[0,1,0].      *)
FrameRightHanded ==
    pc # "frame" =>
        /\ x_new = axis
        /\ PositiveMultiple(z_new, VecCross(x_new, y_new))
        /\ z_new.v[3] >= 0
        /\ AxisAlignedFrames

(* C15, amended: for every cut axis x, z_new is x cross y_new or its      *)
(* negative, the sign chosen so that z_new's world-z component is never   *)
(* negative: the frame (x, y_new, z_new) is right-handed exactly when     *)
(* x cross y_new has a non-negative world-z component and left-handed     *)
(* otherwise; the axis-aligned cuts have the frames listed.               *)
FrameHeightAxisUp ==
    pc # "frame" =>
        LET c == VecCross(x_new, y_new)
        IN  /\ x_new = axis
            /\ c # UnitVec(0, 0, 0)
            /\ z_new.v[3] >= 0
            /\ z_new \in {c, VecNeg(c)}
            /\ PositiveMultiple(z_new, c) <=> c.v[3] >= 0
            /\ PositiveMultiple(z_new, VecNeg(c)) <=> c.v[3] < 0
            /\ AxisAlignedFrames

\* the cut along [0,1,0]: x cross y_new points down, z_new is its negative
\* and the frame is left-handed
CutAlongYIsLeftHanded ==
    /\ pc # "frame"
    /\ x_new = UnitVec(0, 1, 0)
    /\ y_new = UnitVec(1, 0, 0)
    /\ VecCross(x_new, y_new) = UnitVec(0, 0, -1)
    /\ z_new = UnitVec(0, 0, 1)

(* C10: projection round trip: for every unit cut axis and every point of *)
(* the cutting plane, _inverse_project(_project(p)) equals p.             *)
ProjectionRoundTrip ==
    pc = "projected" => restored = point

-----------------------------------------------------------------------------
(* Part3DData.__init__: the input validation and the storage of the        *)
(* arguments it validates.  The other arguments are stored unchecked.      *)

\* None where the other values of the argument are strings
NoneStr == "None"

\* the validation without the check of ns
Part3DDataNoNsCheck(label, fc_name, directive, domain_type, ns) ==
    IF directive \notin {"extrude", "wire", "wire_shell", "SAG", "lithography", "3d_shape"}
    THEN [self |-> None, error |-> "NameError"]
    ELSE IF domain_type \notin {"semiconductor", "metal_gate", "virtual", "dielectric"}
    THEN [self |-> None, error |-> IF domain_type = NoneStr THEN "TypeError" ELSE "NameError"]
    ELSE [self |-> [label |-> label, fc_name |-> fc_name, directive |-> directive,
                    domain_type |-> domain_type, ns |-> ns],
          error |-> "none"]

\* Part3DData(label, fc_name, directive, domain_type=None, ..., ns=None, ...): the
\* object and the exception raised; the message of the second check is built by
\* "..." + domain_type, which raises TypeError for None
Part3DData(label, fc_name, directive, domain_type, ns) ==
    IF directive \notin {"extrude", "wire", "wire_shell", "SAG", "lithography", "3d_shape"}
    THEN [self |-> None, error |-> "NameError"]
    ELSE IF domain_type \notin {"semiconductor", "metal_gate", "virtual", "dielectric"}
    THEN [self |-> None, error |-> IF domain_type = NoneStr THEN "TypeError" ELSE "NameError"]
    ELSE IF domain_type \notin {"semiconductor", "dielectric"} /\ ns # NoneStr
    THEN [self |-> None, error |-> "ValueError"]
    ELSE [self |-> [label |-> label, fc_name |-> fc_name, directive |-> directive,
                    domain_type |-> domain_type, ns |-> ns],
          error |-> "none"]

\* the arguments the constructor is called with: the directives and domain
\* types of the docstring, which spells SAG as "sag", the default domain type
\* and an unknown word; ns unset, zero and a density
Names3D == {<<"a">>, <<"b">>}
DirectiveInputs ==
    {"extrude", "wire", "wire_shell", "SAG", "sag", "lithography", "3d_shape", "box"}
DomainTypeInputs ==
    {"semiconductor", "metal_gate", "virtual", "dielectric", NoneStr, "metal"}
NsInputs == {NoneStr, "0.0", "1e17"}

Part3DInit ==
    /\ part_3d = None
    /\ call = NoCall
    /\ error = "none"
    /\ pc = "part3d"
    /\ geo_2d = Geo2DData("nm")
    /\ parts = <<>>
    /\ build_order = <<>>
    /\ polygons = <<>>
    /\ part_polygons = <<>>
    /\ virtual_part_polygons = <<>>
    /\ part_i = 0
    /\ poly_i = 0
    /\ virt_i = 0
    /\ cont_graph = <<>>
    /\ polys_to_add = <<>>
    /\ doc = "closed"
    /\ opened = 0
    /\ queries = <<>>
    /\ added = <<>>
    /\ FrameIdle

\* part = Part3DData(...): the name is bound when the constructor returns
Part3DNew ==
    /\ pc = "part3d"
    /\ \E label \in Names3D, directive \in DirectiveInputs,
          domain_type \in DomainTypeInputs, ns \in NsInputs :
          LET r == Part3DData(label, NoneStr, directive, domain_type, ns)
          IN  /\ part_3d' = IF r.error = "none" THEN r.self ELSE part_3d
              /\ error' = r.error
              /\ call' = [op |-> "Part3DData", self |-> part_3d, label |-> label,
                          directive |-> directive, domain_type |-> domain_type,
                          ns |-> ns]
    /\ UNCHANGED geo_2d
    /\ UNCHANGED xsecVars
    /\ UNCHANGED frameVars

Part3DNext == Part3DNew

SpecPart3D == Part3DInit /\ [][Part3DNext]_vars

-----------------------------------------------------------------------------
(* Geo3DData: add_part and remove_part *)

\* Geo3DData.__init__
Geo3DData == [build_order |-> <<>>, parts |-> <<>>]

\* an add_part that records the part before it checks the name
Geo3DData_add_part_unchecked(self, part_name, part, overwrite) ==
    [self |-> [self EXCEPT !.build_order = Append(self.build_order, part.label),
                           !.parts = IF part_name \in DOMAIN self.parts /\ ~overwrite
                                     THEN self.parts
                                     ELSE DictSet(self.parts, part_name, part)],
     error |-> IF part_name \in DOMAIN self.parts /\ ~overwrite
               THEN "ValueError" ELSE "none"]

\* Geo3DData.add_part: the object after the call and the exception raised
Geo3DData_add_part(self, part_name, part, overwrite) ==
    IF part_name \in DOMAIN self.parts /\ ~overwrite
    THEN [self |-> self, error |-> "ValueError"]
    ELSE [self |-> [self EXCEPT !.build_order = Append(self.build_order, part.label),
                                !.parts = DictSet(self.parts, part_name, part)],
          error |-> "none"]

\* a remove_part that raises for an absent name whatever ignore_if_absent is
Geo3DData_remove_part_strict(self, part_name, ignore_if_absent) ==
    IF part_name \in DOMAIN self.parts
    THEN [self |-> [self EXCEPT !.parts = DictDel(self.parts, part_name)],
          error |-> "none"]
    ELSE [self |-> self, error |-> "ValueError"]

\* Geo3DData.remove_part
Geo3DData_remove_part(self, part_name, ignore_if_absent) ==
    IF part_name \in DOMAIN self.parts
    THEN [self |-> [self EXCEPT !.parts = DictDel(self.parts, part_name)],
          error |-> "none"]
    ELSE IF ~ignore_if_absent
    THEN [self |-> self, error |-> "ValueError"]
    ELSE [self |-> self, error |-> "none"]

\* the parts add_part is called with: constructed, with either label, physical
\* or virtual
Parts3D ==
    {Part3DData(label, NoneStr, "extrude", domain_type, NoneStr).self :
        label \in Names3D, domain_type \in XsecDomainTypes}

\* what the Geo3DData calls leave alone
geo3dRest == <<polygons, part_polygons, virtual_part_polygons, part_i, poly_i, virt_i,
               cont_graph, polys_to_add, doc, opened, queries, added>>

Geo3DInit ==
    /\ parts = Geo3DData.parts
    /\ build_order = Geo3DData.build_order
    /\ error = "none"
    /\ call = NoCall
    /\ pc = "geo3d"
    /\ part_3d = None
    /\ geo_2d = Geo2DData("nm")
    /\ polygons = <<>>
    /\ part_polygons = <<>>
    /\ virtual_part_polygons = <<>>
    /\ part_i = 0
    /\ poly_i = 0
    /\ virt_i = 0
    /\ cont_graph = <<>>
    /\ polys_to_add = <<>>
    /\ doc = "closed"
    /\ opened = 0
    /\ queries = <<>>
    /\ added = <<>>
    /\ FrameIdle

Geo3DAddPart ==
    /\ pc = "geo3d"
    /\ Len(build_order) < MaxBuildOrder
    /\ \E part_name \in Names3D, part \in Parts3D, overwrite \in BOOLEAN :
          LET self == [build_order |-> build_order, parts |-> parts]
              r == Geo3DData_add_part(self, part_name, part, overwrite)
          IN  /\ parts' = r.self.parts
              /\ build_order' = r.self.build_order
              /\ error' = r.error
              /\ call' = [op |-> "Geo3DData.add_part", self |-> self,
                          name |-> part_name, part |-> part, flag |-> overwrite]
    /\ UNCHANGED <<geo_2d, pc, part_3d>>
    /\ UNCHANGED geo3dRest
    /\ UNCHANGED frameVars

Geo3DRemovePart ==
    /\ pc = "geo3d"
    /\ \E part_name \in Names3D, ignore_if_absent \in BOOLEAN :
          LET self == [build_order |-> build_order, parts |-> parts]
              r == Geo3DData_remove_part(self, part_name, ignore_if_absent)
          IN  /\ parts' = r.self.parts
              /\ build_order' = r.self.build_order
              /\ error' = r.error
              /\ call' = [op |-> "Geo3DData.remove_part", self |-> self,
                          name |-> part_name, part |-> None, flag |-> ignore_if_absent]
    /\ UNCHANGED <<geo_2d, pc, part_3d>>
    /\ UNCHANGED geo3dRest
    /\ UNCHANGED frameVars

Geo3DNext == Geo3DAddPart \/ Geo3DRemovePart

SpecGeo3D == Geo3DInit /\ [][Geo3DNext]_vars

\* a program that works on a Geo2DData or on a Geo3DData
GeoDataInit == Geo2DInit \/ Geo3DInit

GeoDataNext == Geo2DNext \/ Geo3DNext

SpecGeoData == GeoDataInit /\ [][GeoDataNext]_vars

-----------------------------------------------------------------------------
(* C11: a rejected add is an error that changes nothing: Geo2DData.add_part *)
(* with an invalid polygon, for any overwrite value, and Geo2DData.add_part, *)
(* Geo2DData.add_edge and Geo3DData.add_part with a name already present   *)
(* and overwrite=False raise an error and leave parts, edges and            *)
(* build_order as they were before the call.                                *)
RejectedAddChangesNothing ==
    /\ (/\ call.op = "Geo2DData.add_part"
        /\ \/ ~call.part.is_valid
           \/ (call.name \in DOMAIN call.self.parts /\ ~call.flag))
          => /\ error # "none"
             /\ geo_2d.parts = call.self.parts
             /\ geo_2d.edges = call.self.edges
             /\ geo_2d.build_order = call.self.build_order
    /\ (/\ call.op = "Geo2DData.add_edge"
        /\ call.name \in DOMAIN call.self.edges
        /\ ~call.flag)
          => /\ error # "none"
             /\ geo_2d.parts = call.self.parts
             /\ geo_2d.edges = call.self.edges
             /\ geo_2d.build_order = call.self.build_order
    /\ (/\ call.op = "Geo3DData.add_part"
        /\ call.name \in DOMAIN call.self.parts
        /\ ~call.flag)
          => /\ error # "none"
             /\ parts = call.self.parts
             /\ build_order = call.self.build_order

\* a Geo3DData that holds a part refused a second part under the same name
DuplicatePart3DRejected ==
    /\ call.op = "Geo3DData.add_part"
    /\ ~call.flag
    /\ call.name \in DOMAIN call.self.parts
    /\ call.part # call.self.parts[call.name]
    /\ call.part.label # call.name
    /\ error = "ValueError"
    /\ parts = call.self.parts
    /\ build_order = call.self.build_order
    /\ build_order # <<>>

(* C12: removing a name that is not present (Geo2DData.remove_part,        *)
(* Geo2DData.remove_edge, Geo3DData.remove_part) raises an error when      *)
(* ignore_if_absent is False and returns without error when it is True; in *)
(* both cases parts, edges and build_order are left unchanged.             *)
RemoveAbsentChangesNothing ==
    /\ (call.op = "Geo2DData.remove_part" /\ call.name \notin DOMAIN call.self.parts)
          => /\ error # "none" <=> ~call.flag
             /\ geo_2d.parts = call.self.parts
             /\ geo_2d.edges = call.self.edges
             /\ geo_2d.build_order = call.self.build_order
    /\ (call.op = "Geo2DData.remove_edge" /\ call.name \notin DOMAIN call.self.edges)
          => /\ error # "none" <=> ~call.flag
             /\ geo_2d.parts = call.self.parts
             /\ geo_2d.edges = call.self.edges
             /\ geo_2d.build_order = call.self.build_order
    /\ (call.op = "Geo3DData.remove_part" /\ call.name \notin DOMAIN call.self.parts)
          => /\ error # "none" <=> ~call.flag
             /\ parts = call.self.parts
             /\ build_order = call.self.build_order

\* a Geo3DData that holds a part ignored the removal of a name it does not hold
AbsentPart3DIgnored ==
    /\ call.op = "Geo3DData.remove_part"
    /\ call.flag
    /\ call.name \notin DOMAIN call.self.parts
    /\ DOMAIN call.self.parts # {}
    /\ error = "none"
    /\ parts = call.self.parts
    /\ build_order = call.self.build_order

(* C16: for a Geo3DData, after any sequence of add_part and remove_part    *)
(* calls, every entry of build_order is a key of parts and every key of    *)
(* parts occurs in build_order.                                            *)
BuildOrder3DMatchesParts ==
    pc = "geo3d" => Range(build_order) = DOMAIN parts

====
